---- MODULE Spec2Model ----
(***************************************************************************)
(* Model of the Minesweeper board engine of src/src/model.rs: the struct   *)
(* Minesweeper (width, height, open_positions, mines, flagged_positions,   *)
(* game_over) and its two mutators open and toggle_flag.                   *)
(***************************************************************************)
EXTENDS Integers, Sequences, FiniteSets, TLC, Bags

\* ------------------------------------------------------------------------
\* Bounds of the model
\* ------------------------------------------------------------------------
\* largest width, height and grid area width * height Init constructs
MaxWidth == 5
MaxHeight == 2
MaxCells == 6
\* largest mines_count Init constructs
MaxMines == 2
\* largest number of flags the model lets toggle_flag place
MaxFlags == 2
\* largest small width and height, and largest small mines_count, that
\* fn new is called with
NewMaxSide == 3
NewMaxMines == 3

\* ------------------------------------------------------------------------
\* State: the fields of struct Minesweeper, the parameter mines_count of
\* fn new, and where the construction stands: "new" (called), "sampling"
\* (in the while loop), "ready" (returned) or "panicked".
\* A call of open that is followed step by step has its activations in
\* stack (of each activation, the neighbours its for_each has yet to
\* visit, innermost activation first) and the positions it has opened so
\* far, each with the number of times, in the bag expansions; swept holds the positions a sweep over the board has
\* called open on
\* ------------------------------------------------------------------------
VARIABLES width, height, open_positions, mines, flagged_positions, game_over,
          mines_count, pc, swept, stack, expansions

vars == <<width, height, open_positions, mines, flagged_positions, game_over,
          mines_count, pc, swept, stack, expansions>>

\* Position = (u16, u16): the largest coordinate value
U16Max == 65535

\* u16::saturating_sub and u16::saturating_add
saturating_sub(a, b) == IF a < b THEN 0 ELSE a - b
saturating_add(a, b) == IF a + b > U16Max THEN U16Max ELSE a + b

\* the cells of the grid, 0..width x 0..height as new draws them
Grid == (0 .. width - 1) \X (0 .. height - 1)

\* the mutable part of the struct, as the methods below pass it along
Self == [open_positions |-> open_positions,
         flagged_positions |-> flagged_positions,
         game_over |-> game_over]

\* a variant of neighbours without the diagonal positions
neighbours_orthogonal(pos) ==
    {p \in (saturating_sub(pos[1], 1) .. saturating_add(pos[1], 1))
             \X (saturating_sub(pos[2], 1) .. saturating_add(pos[2], 1)) :
        /\ p # pos /\ p[1] < width /\ p[2] < height
        /\ (p[1] = pos[1] \/ p[2] = pos[2])}

\* fn neighbours: the 3x3 block around (x, y), saturating at 0 and at
\* u16::MAX, without (x, y) itself and without anything outside the grid
neighbours(pos) ==
    LET x == pos[1]
        y == pos[2]
    IN  {p \in (saturating_sub(x, 1) .. saturating_add(x, 1))
                 \X (saturating_sub(y, 1) .. saturating_add(y, 1)) :
            p # pos /\ p[1] < width /\ p[2] < height}

\* a variant of mines_around that counts the position itself as well
mines_around_and_here(pos) ==
    Cardinality({position \in neighbours(pos) \cup {pos} :
                    position \in mines}) % 256

\* a variant of mines_around that finds no mine anywhere
mines_around_zero(pos) == 0

\* fn mines_around: the number of neighbours that are mines, as u8
mines_around(pos) ==
    Cardinality({position \in neighbours(pos) : position \in mines}) % 256

\* a variant of can_be_opened that lets a flagged position be opened
can_be_opened_ignores_flags(self, position) ==
    /\ position \notin self.open_positions
    /\ ~self.game_over

\* a variant of can_be_opened that goes on after the game is over
can_be_opened_after_game_over(self, position) ==
    /\ position \notin self.open_positions
    /\ position \notin self.flagged_positions

\* a variant of can_be_opened that takes an open position again
can_be_opened_ignores_open(self, position) ==
    /\ position \notin self.flagged_positions
    /\ ~self.game_over

\* fn can_be_opened
can_be_opened(self, position) ==
    /\ position \notin self.open_positions
    /\ position \notin self.flagged_positions
    /\ ~self.game_over

\* a variant of open_position without the early return
open_position_unguarded(self, position) ==
    LET inserted == [self EXCEPT !.open_positions = @ \cup {position}]
    IN  IF position \in mines
        THEN [self |-> inserted, result |-> "Mine", mines_around |-> 0]
        ELSE [self |-> inserted, result |-> "NoMine",
              mines_around |-> mines_around(position)]

\* fn open_position: None, or the position inserted and Mine / NoMine(n)
open_position(self, position) ==
    IF ~can_be_opened(self, position)
    THEN [self |-> self, result |-> "None", mines_around |-> 0]
    ELSE LET inserted == [self EXCEPT !.open_positions = @ \cup {position}]
         IN  IF position \in mines
             THEN [self |-> inserted, result |-> "Mine", mines_around |-> 0]
             ELSE [self |-> inserted, result |-> "NoMine",
                   mines_around |-> mines_around(position)]

\* a variant of open_mine that forgets to end the game
open_mine_keeps_playing(self, pos) ==
    [self EXCEPT !.open_positions = @ \cup {pos}]

\* a variant of open_mine that takes the flags off the board
open_mine_clears_flags(self, pos) ==
    [self EXCEPT !.open_positions = @ \cup {pos}, !.game_over = TRUE,
                 !.flagged_positions = {}]

\* fn open, arm OpeningResult::Mine
open_mine(self, pos) ==
    [self EXCEPT !.open_positions = @ \cup {pos}, !.game_over = TRUE]

\* a variant of open_counted that opens the neighbours whatever the count
open_counted_cascade(self, pos) ==
    [self EXCEPT !.open_positions = @ \cup {pos} \cup neighbours(pos)]

\* fn open, arm OpeningResult::NoMine(_) with mines around
open_counted(self, pos) ==
    [self EXCEPT !.open_positions = @ \cup {pos}]

\* The iteration order of the HashSet that neighbours returns is not
\* specified: the model visits the neighbours in one of these orders
\* (column by column upwards, or row by row downwards)
Orders == {"xy_up", "yx_down"}

order_key(p, ord) ==
    CASE ord = "xy_up"   -> p[1] * (U16Max + 1) + p[2]
      [] ord = "yx_down" -> 0 - (p[2] * (U16Max + 1) + p[1])

\* a variant of iter that ends after the first member
iter_first_only(set, ord) ==
    IF set = {} THEN <<>>
    ELSE <<CHOOSE p \in set :
               \A q \in set : order_key(p, ord) <= order_key(q, ord)>>

\* HashSet::iter: the members of a set, one after the other
RECURSIVE iter(_, _)
iter(set, ord) ==
    IF set = {} THEN <<>>
    ELSE LET first == CHOOSE p \in set :
                          \A q \in set : order_key(p, ord) <= order_key(q, ord)
         IN  <<first>> \o iter(set \ {first}, ord)

\* fn open: open_position, then the match on its result; the arm of
\* NoMine(0) opens every neighbour that can be opened, recursively
RECURSIVE open(_, _, _)

\* a variant of open_each that ends at the first neighbour that cannot be
\* opened
RECURSIVE open_each_until_refused(_, _, _)
open_each_until_refused(self, todo, ord) ==
    IF todo = <<>> THEN self
    ELSE IF can_be_opened(self, Head(todo))
         THEN open_each_until_refused(open(self, Head(todo), ord),
                                      Tail(todo), ord)
         ELSE self

RECURSIVE open_each(_, _, _)
open_each(self, todo, ord) ==
    IF todo = <<>> THEN self
    ELSE LET position == Head(todo)
             next == IF can_be_opened(self, position)
                     THEN open(self, position, ord)
                     ELSE self
         IN  open_each(next, Tail(todo), ord)

open(self, pos, ord) ==
    LET r == open_position(self, pos)
    IN  CASE r.result = "None" -> r.self
          [] r.result = "Mine" -> open_mine(r.self, pos)
          [] r.result = "NoMine" ->
                IF r.mines_around = 0
                THEN open_each([r.self EXCEPT !.open_positions = @ \cup {pos}],
                               iter(neighbours(pos), ord), ord)
                ELSE open_counted(r.self, pos)

\* fn open with no order of iteration fixed: every state a call can end
\* in when each for_each takes the neighbours in any order whatever
RECURSIVE open_any_order(_, _)
RECURSIVE open_each_any_order(_, _)
open_each_any_order(self, todo) ==
    IF todo = {} THEN {self}
    ELSE UNION {
           UNION { open_each_any_order(next, todo \ {position}) :
                     next \in IF can_be_opened(self, position)
                              THEN open_any_order(self, position)
                              ELSE {self} } :
           position \in todo }

open_any_order(self, pos) ==
    LET r == open_position(self, pos)
    IN  CASE r.result = "None" -> {r.self}
          [] r.result = "Mine" -> {open_mine(r.self, pos)}
          [] r.result = "NoMine" ->
                IF r.mines_around = 0
                THEN open_each_any_order(
                         [r.self EXCEPT !.open_positions = @ \cup {pos}],
                         neighbours(pos))
                ELSE {open_counted(r.self, pos)}

\* a variant of toggle_flag without the game_over check
toggle_flag_after_game_over(self, position) ==
    IF position \in self.flagged_positions
    THEN [self EXCEPT !.flagged_positions = @ \ {position}]
    ELSE [self EXCEPT !.flagged_positions = @ \cup {position}]

\* a variant of toggle_flag that never removes a flag
toggle_flag_insert_only(self, position) ==
    IF ~self.game_over
    THEN [self EXCEPT !.flagged_positions = @ \cup {position}]
    ELSE self

\* a variant of toggle_flag that clears the set when it removes a flag
toggle_flag_clears(self, position) ==
    IF ~self.game_over
    THEN IF position \in self.flagged_positions
         THEN [self EXCEPT !.flagged_positions = {}]
         ELSE [self EXCEPT !.flagged_positions = @ \cup {position}]
    ELSE self

\* a variant of toggle_flag that closes the cell it flags
toggle_flag_closes(self, position) ==
    IF ~self.game_over
    THEN IF position \in self.flagged_positions
         THEN [self EXCEPT !.flagged_positions = @ \ {position}]
         ELSE [self EXCEPT !.flagged_positions = @ \cup {position},
                           !.open_positions = @ \ {position}]
    ELSE self

\* fn toggle_flag
toggle_flag(self, position) ==
    IF ~self.game_over
    THEN IF position \in self.flagged_positions
         THEN [self EXCEPT !.flagged_positions = @ \ {position}]
         ELSE [self EXCEPT !.flagged_positions = @ \cup {position}]
    ELSE self

\* ------------------------------------------------------------------------
\* Rendering: impl Display for Minesweeper. A text is a sequence of chars
\* ------------------------------------------------------------------------
\* the glyphs: CELL, MINE and EXPLOSION are one char each, FLAG is a &str
\* of two chars (two regional indicator symbols)
CELL == <<"yellow_square">>
FLAG == <<"regional_indicator_r", "regional_indicator_u">>
MINE == <<"bomb">>
EXPLOSION == <<"collision">>

DecimalDigits == <<"0", "1", "2", "3", "4", "5", "6", "7", "8", "9">>

\* format_args!("{}", n) for a u8: its decimal digits
RECURSIVE to_decimal(_)
to_decimal(n) ==
    IF n < 10 THEN <<DecimalDigits[n + 1]>>
    ELSE to_decimal(n \div 10) \o <<DecimalDigits[(n % 10) + 1]>>

\* a variant of write_cell that looks at the flag before the open set
write_cell_flag_first(self, position) ==
    IF ~self.game_over
    THEN IF position \in self.flagged_positions
         THEN FLAG \o <<" ">>
         ELSE IF position \in self.open_positions
              THEN to_decimal(mines_around(position)) \o <<" ">>
              ELSE CELL \o <<" ">>
    ELSE IF position \in mines
         THEN IF position \in self.open_positions
              THEN EXPLOSION \o <<" ">>
              ELSE MINE \o <<" ">>
         ELSE to_decimal(mines_around(position)) \o <<" ">>

\* fn fmt, the body of the loop over the columns: what is written for one
\* position
write_cell(self, position) ==
    IF ~self.game_over
    THEN IF position \in self.open_positions
         THEN to_decimal(mines_around(position)) \o <<" ">>
         ELSE IF position \in self.flagged_positions
              THEN FLAG \o <<" ">>
              ELSE CELL \o <<" ">>
    ELSE IF position \in mines
         THEN IF position \in self.open_positions
              THEN EXPLOSION \o <<" ">>
              ELSE MINE \o <<" ">>
         ELSE to_decimal(mines_around(position)) \o <<" ">>

\* a variant of write_row_end that writes no newline at all
write_row_end_never(y) == <<>>

\* fn fmt, the end of a row: a newline if (0..height).contains(&y)
write_row_end(y) ==
    IF 0 <= y /\ y < height THEN <<"\n">> ELSE <<>>

\* fn fmt, the loop over the columns x..width of row y
RECURSIVE write_columns(_, _, _)
write_columns(self, y, x) ==
    IF x >= width THEN <<>>
    ELSE write_cell(self, <<x, y>>) \o write_columns(self, y, x + 1)

\* fn fmt, the loop over the rows y..height
RECURSIVE write_rows(_, _)
write_rows(self, y) ==
    IF y >= height THEN <<>>
    ELSE write_columns(self, y, 0) \o write_row_end(y)
             \o write_rows(self, y + 1)

\* fn fmt: the text of the board
fmt(self) == write_rows(self, 0)

\* ------------------------------------------------------------------------
\* The state machine
\* ------------------------------------------------------------------------
\* the u16 product a * b of a build without overflow checks: a * b modulo
\* 2^16, computed from the two bytes of a so that no intermediate value
\* leaves the range of the model checker's integers
wrapping_mul(a, b) ==
    ((((a \div 256) * b) % 256) * 256 + (a % 256) * b) % (U16Max + 1)

\* the u16 product a * b does not fit: a build with overflow checks panics
mul_overflows(a, b) == b > 0 /\ a > U16Max \div b

\* a variant of valid_parameters that lets mines_count equal the area
valid_parameters_inclusive(w, h, n) ==
    w > 0 /\ h > 0 /\ n > 0 /\ n <= wrapping_mul(w, h)

\* the assertion of fn new, with width * height computed in u16
valid_parameters(w, h, n) ==
    w > 0 /\ h > 0 /\ n > 0 /\ n < wrapping_mul(w, h)

\* the board fn new returns: mines_count distinct cells of the grid
Init ==
    /\ width \in 1 .. MaxWidth
    /\ height \in 1 .. MaxHeight
    /\ width * height <= MaxCells
    /\ mines_count \in 1 .. MaxMines
    /\ valid_parameters(width, height, mines_count)
    /\ mines \in {m \in SUBSET Grid : Cardinality(m) = mines_count}
    /\ open_positions = {}
    /\ flagged_positions = {}
    /\ game_over = FALSE
    /\ pc = "ready"
    /\ swept = {}
    /\ stack = <<>>
    /\ expansions = EmptyBag

\* the positions the callers pass: every cell of the grid, and the
\* position just outside of it at the far end of row 0 (neither open nor
\* toggle_flag checks a position against width and height)
Inputs == Grid \cup {<<width, 0>>}

Assign(self) ==
    /\ open_positions' = self.open_positions
    /\ flagged_positions' = self.flagged_positions
    /\ game_over' = self.game_over
    /\ UNCHANGED <<width, height, mines, mines_count, pc>>

Store(self) ==
    /\ Assign(self)
    /\ UNCHANGED <<swept, stack, expansions>>

\* Minesweeper::open(pos)
Open(pos) ==
    \E ord \in Orders : Store(open(Self, pos, ord))

\* Minesweeper::toggle_flag(position)
ToggleFlag(position) ==
    /\ Cardinality(toggle_flag(Self, position).flagged_positions) <= MaxFlags
    /\ Store(toggle_flag(Self, position))

Next ==
    \E pos \in Inputs :
        \/ Open(pos)
        \/ ToggleFlag(pos)

Spec == Init /\ [][Next]_vars

\* The same board with callers that keep to the grid, as the tests of
\* src/src/lib.rs do: they pass x and y of 0..10 to the 10 x 10 board
NextInGrid ==
    \E pos \in Grid :
        \/ Open(pos)
        \/ ToggleFlag(pos)

SpecInGrid == Init /\ [][NextInGrid]_vars

\* In-grid play in which no flag is taken off again: toggle_flag is called
\* on positions without a flag only
SetFlag(position) ==
    /\ position \notin flagged_positions
    /\ ToggleFlag(position)

NextKeepFlags ==
    \E pos \in Grid :
        \/ Open(pos)
        \/ SetFlag(pos)

SpecKeepFlags == Init /\ [][NextKeepFlags]_vars

\* ------------------------------------------------------------------------
\* A sweep over a fresh board: test_open_cell of src/src/lib.rs calls open
\* once on every position that holds no mine. The test goes column by
\* column; the model lets the sweep take the positions in any order
\* ------------------------------------------------------------------------
SweepOpen(pos) ==
    /\ pos \notin mines
    /\ pos \notin swept
    /\ \E ord \in Orders : Assign(open(Self, pos, ord))
    /\ swept' = swept \cup {pos}
    /\ UNCHANGED <<stack, expansions>>

NextSweep == \E pos \in Grid : SweepOpen(pos)

SpecSweep == Init /\ [][NextSweep]_vars

\* ------------------------------------------------------------------------
\* A call of open followed activation by activation
\* ------------------------------------------------------------------------
\* One activation of fn open on pos, up to its return or to the start of
\* its for_each: open_position and the match on its result. frames are
\* the activations that wait for this one, log the positions the call has
\* opened before it. The arm of NoMine(0) takes the neighbours in the
\* order their HashSet iterates
Activate(pos, frames, log) ==
    LET r == open_position(Self, pos)
    IN  CASE r.result = "None" ->
                /\ Assign(r.self)
                /\ stack' = frames
                /\ expansions' = log
          [] r.result = "Mine" ->
                /\ Assign(open_mine(r.self, pos))
                /\ stack' = frames
                /\ expansions' = log (+) SetToBag({pos})
          [] r.result = "NoMine" ->
                IF r.mines_around = 0
                THEN /\ Assign([r.self EXCEPT !.open_positions = @ \cup {pos}])
                     /\ \E ord \in Orders :
                           stack' = <<iter(neighbours(pos), ord)>> \o frames
                     /\ expansions' = log (+) SetToBag({pos})
                ELSE /\ Assign(open_counted(r.self, pos))
                     /\ stack' = frames
                     /\ expansions' = log (+) SetToBag({pos})

\* a caller calls open(pos) on the board at rest
Call(pos) ==
    /\ stack = <<>>
    /\ Activate(pos, <<>>, EmptyBag)
    /\ UNCHANGED swept

\* the for_each of the innermost activation takes its next neighbour and
\* opens it if it can be opened
Visit ==
    /\ stack # <<>>
    /\ Head(stack) # <<>>
    /\ LET position == Head(Head(stack))
           frames == <<Tail(Head(stack))>> \o Tail(stack)
       IN  IF can_be_opened(Self, position)
           THEN Activate(position, frames, expansions)
           ELSE /\ stack' = frames
                /\ UNCHANGED <<width, height, open_positions, mines,
                               flagged_positions, game_over, mines_count,
                               pc, expansions>>
    /\ UNCHANGED swept

\* the for_each of the innermost activation is through: it returns
Return ==
    /\ stack # <<>>
    /\ Head(stack) = <<>>
    /\ stack' = Tail(stack)
    /\ UNCHANGED <<width, height, open_positions, mines, flagged_positions,
                   game_over, mines_count, pc, swept, expansions>>

\* toggle_flag on the board at rest; the flags are set before the first
\* call of open
ToggleAtRest(position) ==
    /\ stack = <<>>
    /\ open_positions = {}
    /\ ToggleFlag(position)

NextOpen ==
    \/ \E pos \in Inputs : Call(pos)
    \/ Visit
    \/ Return
    \/ \E pos \in Grid : ToggleAtRest(pos)

\* open runs on one thread and nothing preempts it: a call that has
\* started takes its next step
SpecOpen ==
    Init /\ [][NextOpen]_vars /\ WF_vars(Visit) /\ WF_vars(Return)

\* ------------------------------------------------------------------------
\* Construction: fn new, from the call to the returned board
\* ------------------------------------------------------------------------
\* the widths and heights new is called with: the small ones, 256 (whose
\* square is 2^16) and u16::MAX; and the mine counts
NewSides == (0 .. NewMaxSide) \cup {256, U16Max}
NewCounts == (0 .. NewMaxMines) \cup {U16Max}

\* new has been called with width, height and mines_count; no board yet.
\* With a side above the small ones the call asks for one mine at most, or
\* for u16::MAX mines
InitNew ==
    /\ width \in NewSides
    /\ height \in NewSides
    /\ mines_count \in NewCounts
    /\ (width > NewMaxSide \/ height > NewMaxSide)
          => mines_count \in {0, 1, U16Max}
    /\ mines = {}
    /\ open_positions = {}
    /\ flagged_positions = {}
    /\ game_over = FALSE
    /\ pc = "new"
    /\ swept = {}
    /\ stack = <<>>
    /\ expansions = EmptyBag

\* the assert! of fn new. The conjunction is evaluated left to right, so
\* width * height is computed only when the three comparisons before it
\* hold; the u16 product panics when it overflows in a build with
\* overflow checks and wraps in a build without
AssertParameters ==
    /\ pc = "new"
    /\ \E overflow_checks \in BOOLEAN :
          IF /\ overflow_checks
             /\ width > 0 /\ height > 0 /\ mines_count > 0
             /\ mul_overflows(width, height)
          THEN pc' = "panicked"
          ELSE pc' = IF valid_parameters(width, height, mines_count)
                     THEN "sampling" ELSE "panicked"
    /\ UNCHANGED <<width, height, open_positions, mines, flagged_positions,
                   game_over, mines_count, swept, stack, expansions>>

\* a variant of gen_range with an inclusive upper end
gen_range_inclusive(n) ==
    IF n <= NewMaxSide THEN 0 .. n ELSE {0, 1, n}

\* rand::thread_rng().gen_range(0..n): any value below n; of a range
\* longer than the small sides the model draws the first two values and
\* the last one
gen_range(n) ==
    IF n <= NewMaxSide THEN 0 .. n - 1 ELSE {0, 1, n - 1}

\* one round of the while loop of fn new: a draw, inserted into mines
DrawMine ==
    /\ pc = "sampling"
    /\ Cardinality(mines) < mines_count
    /\ \E x \in gen_range(width), y \in gen_range(height) :
          mines' = mines \cup {<<x, y>>}
    /\ UNCHANGED <<width, height, open_positions, flagged_positions,
                   game_over, mines_count, pc, swept, stack, expansions>>

\* the while loop ends and new returns the board
ReturnBoard ==
    /\ pc = "sampling"
    /\ ~(Cardinality(mines) < mines_count)
    /\ pc' = "ready"
    /\ UNCHANGED <<width, height, open_positions, mines, flagged_positions,
                   game_over, mines_count, swept, stack, expansions>>

NextNew ==
    \/ AssertParameters
    \/ DrawMine
    \/ ReturnBoard

SpecNew == InitNew /\ [][NextNew]_vars

\* ------------------------------------------------------------------------
\* Properties
\* ------------------------------------------------------------------------
\* a position open_position accepts: closed, not flagged, game not over
Openable(pos) ==
    pos \notin open_positions /\ pos \notin flagged_positions /\ ~game_over

\* C1: no position is a member of both open_positions and
\* flagged_positions, in any state a sequence of open and toggle_flag calls
\* reaches from a fresh board.
C1_OpenAndFlaggedDisjoint ==
    open_positions \cap flagged_positions = {}

\* C2: open(pos) on a mine that is closed and not flagged, while the game
\* is not over, ends the game and adds exactly pos to open_positions: no
\* neighbour of pos is opened.
C2_MineEndsGameWithoutCascade ==
    \A pos \in Inputs, ord \in Orders :
        (pos \in mines /\ Openable(pos))
            => LET after == open(Self, pos, ord)
               IN  /\ after.game_over
                   /\ after.open_positions = open_positions \cup {pos}

\* a mine has been opened after another cell: the game is over, and the
\* neighbours of the mine that were closed are still closed
C2_Witness ==
    /\ game_over
    /\ \E pos \in mines :
          /\ pos \in open_positions
          /\ \E n \in neighbours(pos) : n \notin open_positions
    /\ \E pos \in Grid \ mines : pos \in open_positions

\* The cells at Chebyshev distance 1 of a cell, and the mines among them,
\* as the rules of the game define them
Abs(n) == IF n < 0 THEN 0 - n ELSE n

Max(a, b) == IF a < b THEN b ELSE a

Chebyshev(p, q) == Max(Abs(p[1] - q[1]), Abs(p[2] - q[2]))

Adjacent(pos) ==
    {q \in (pos[1] - 1 .. pos[1] + 1) \X (pos[2] - 1 .. pos[2] + 1) :
        /\ Chebyshev(pos, q) = 1
        /\ 0 <= q[1] /\ q[1] < width /\ 0 <= q[2] /\ q[2] < height}

MineCount(pos) == Cardinality(Adjacent(pos) \cap mines)

ZeroCells == {c \in Grid \ mines : MineCount(c) = 0}

\* the connected region of zero-count cells that contains pos
RECURSIVE GrowRegion(_)
GrowRegion(region) ==
    LET more == {c \in ZeroCells \ region :
                    \E z \in region : c \in Adjacent(z)}
    IN  IF more = {} THEN region ELSE GrowRegion(region \cup more)

ZeroRegion(pos) == GrowRegion({pos})

\* the cells with a count above zero next to that region
RegionBorder(pos) ==
    {c \in Grid \ ZeroRegion(pos) :
        MineCount(c) > 0 /\ \E z \in ZeroRegion(pos) : c \in Adjacent(z)}

\* the cells a reveal starting at pos reaches when every step goes from a
\* zero-count cell to an adjacent cell that is neither open nor flagged
RECURSIVE GrowRevealed(_)
GrowRevealed(revealed) ==
    LET more == {c \in Grid \ revealed :
                    /\ c \notin open_positions
                    /\ c \notin flagged_positions
                    /\ \E z \in revealed \cap ZeroCells : c \in Adjacent(z)}
    IN  IF more = {} THEN revealed ELSE GrowRevealed(revealed \cup more)

Revealed(pos) == GrowRevealed({pos})

\* C3 as the spec states it: open(pos) on an openable zero-count cell adds
\* to open_positions exactly the connected zero-count region of pos and the
\* non-zero cells next to it (those of them that were not open already).
C3_RegionAndBorderOpened ==
    \A pos \in Grid, ord \in Orders :
        (Openable(pos) /\ pos \in ZeroCells)
            => open(Self, pos, ord).open_positions
                  = open_positions \cup ZeroRegion(pos) \cup RegionBorder(pos)

\* C3 as amended: open(pos) on an openable zero-count cell adds to
\* open_positions exactly the cells reached from pos by steps from a
\* zero-count cell to an adjacent cell that is neither open nor flagged when
\* the call is made; flagged cells and cells already open are neither
\* opened nor expanded through, so the part of the region behind them stays
\* closed. Nothing else changes.
C3_ReachableClosedCellsOpened ==
    \A pos \in Grid, ord \in Orders :
        (Openable(pos) /\ pos \in ZeroCells)
            => open(Self, pos, ord)
                  = [open_positions |-> open_positions \cup Revealed(pos),
                     flagged_positions |-> flagged_positions,
                     game_over |-> FALSE]

\* a reveal has run through a zero-count cell and stopped at a flag: an
\* open zero-count cell has an open neighbour, and a cell of its region or
\* border is flagged and closed
C3_Witness ==
    \E z \in ZeroCells \cap open_positions :
        /\ \E n \in Adjacent(z) : n \in open_positions
        /\ \E c \in ZeroRegion(z) \cup RegionBorder(z) :
              c \in flagged_positions /\ c \notin open_positions

\* C4: open(pos) on an openable cell that is no mine and has a count above
\* zero adds exactly pos to open_positions and leaves game_over false.
C4_CountedCellOpensAlone ==
    \A pos \in Grid, ord \in Orders :
        (Openable(pos) /\ pos \notin mines /\ MineCount(pos) > 0)
            => LET after == open(Self, pos, ord)
               IN  /\ after.open_positions = open_positions \cup {pos}
                   /\ ~after.game_over

\* a counted cell is open while a neighbour of it that is no mine is still
\* closed and not flagged, and the game goes on
C4_Witness ==
    /\ ~game_over
    /\ \E pos \in open_positions \cap Grid :
          /\ MineCount(pos) > 0
          /\ \E n \in Adjacent(pos) \ mines :
                n \notin open_positions /\ n \notin flagged_positions

\* C5: open(pos) on a position that is open already, or flagged, changes
\* nothing: open_positions, flagged_positions, game_over and mines stay as
\* they are.
C5_OpenOfOpenOrFlaggedIsNoOp ==
    /\ [](\A pos \in Inputs, ord \in Orders :
            (pos \in open_positions \/ pos \in flagged_positions)
                => open(Self, pos, ord) = Self)
    /\ [][mines' = mines]_vars

\* while the game goes on, a closed cell is flagged and a zero-count cell
\* next to it is open: an open that reached the flagged cell left it alone
C5_Witness ==
    /\ ~game_over
    /\ \E pos \in flagged_positions \ open_positions :
          \E z \in Adjacent(pos) \cap ZeroCells : z \in open_positions

\* C6: once game_over is true, no open and no toggle_flag call changes
\* open_positions, flagged_positions or game_over.
C6_FrozenAfterGameOver ==
    [][game_over => /\ open_positions' = open_positions
                    /\ flagged_positions' = flagged_positions
                    /\ game_over' = game_over]_vars

\* the game is over with a flag placed and cells still closed
C6_Witness ==
    /\ game_over
    /\ flagged_positions # {}
    /\ \E pos \in Grid : pos \notin open_positions /\ pos \notin flagged_positions

\* C7: open(pos) with pos outside the grid changes nothing: open_positions,
\* flagged_positions and game_over stay as they are and no cell of the grid
\* is opened.
C7_OpenOutsideGridIsNoOp ==
    \A pos \in Inputs \ Grid, ord \in Orders :
        open(Self, pos, ord) = Self

\* C8: no open call, direct or reached through the expansion of a
\* zero-count cell, adds to open_positions a position that is flagged when
\* the call is made.
C8_FlaggedNeverOpened ==
    [][(open_positions' \ open_positions) \cap flagged_positions = {}]_vars

\* a flagged closed cell lies next to an open zero-count cell, inside or at
\* the border of a region that was revealed around it
C8_Witness ==
    \E pos \in flagged_positions \cap Grid :
        /\ pos \notin open_positions
        /\ \E z \in Adjacent(pos) \cap ZeroCells :
              /\ z \in open_positions
              /\ \E n \in Adjacent(z) \ {pos} : n \in open_positions

\* symmetric difference of two sets
Flip(set, pos) == (set \ {pos}) \cup ({pos} \ set)

\* fn tests::test_toggle_flag of lib.rs: toggle_flag on every mine, from
\* x = 0 and y = 0 upwards
RECURSIVE toggle_each(_, _)
toggle_each(self, todo) ==
    IF todo = <<>> THEN self
    ELSE toggle_each(toggle_flag(self, Head(todo)), Tail(todo))

\* C9: while the game is not over, toggle_flag(pos) flips the membership
\* of pos in flagged_positions and of no other position, and changes
\* nothing else; so toggling every mine once on a fresh board leaves
\* flagged_positions equal to mines.
C9_ToggleFlipsExactlyPos ==
    /\ \A pos \in Inputs :
          ~game_over =>
              toggle_flag(Self, pos)
                  = [Self EXCEPT !.flagged_positions = Flip(flagged_positions, pos)]
    /\ (open_positions = {} /\ flagged_positions = {} /\ ~game_over)
          => toggle_each(Self, iter(mines, "xy_up")).flagged_positions = mines

\* every mine has been flagged, and nothing else
C9_Witness ==
    /\ ~game_over
    /\ flagged_positions = mines
    /\ Cardinality(mines) > 1

\* C10: in every reachable state, two toggle_flag(pos) calls in a row
\* leave flagged_positions as it was before the first.
C10_DoubleToggleRestores ==
    \A pos \in Inputs :
        toggle_flag(toggle_flag(Self, pos), pos).flagged_positions
            = flagged_positions

\* the game goes on with one flag placed and cells open: toggle_flag can
\* be called twice on the flagged position and on any other one
C10_Witness ==
    /\ ~game_over
    /\ Cardinality(flagged_positions) = 1
    /\ open_positions # {}

\* ------------------------------------------------------------------------
\* Properties of the construction
\* ------------------------------------------------------------------------
\* n < w * h for the mathematical product, stated with a division
BelowArea(n, w, h) == w > 0 /\ n \div w < h

\* the parameters the spec calls invalid
InvalidParameters ==
    \/ width = 0
    \/ height = 0
    \/ mines_count = 0
    \/ ~BelowArea(mines_count, width, height)

\* C11: new(width, height, mines_count) aborts and produces no board
\* whenever width = 0, height = 0, mines_count = 0 or mines_count is at
\* least width * height: the assertion fails, and the construction never
\* gets to draw a mine or to return.
C11_InvalidParametersAbort ==
    /\ [](InvalidParameters => (pc \in {"new", "panicked"} /\ mines = {}))
    /\ [][(pc = "new" /\ InvalidParameters) => pc' = "panicked"]_vars

\* new has panicked on positive parameters whose mines_count is not below
\* the area
C11_Witness ==
    /\ pc = "panicked"
    /\ width > 0 /\ height > 0 /\ mines_count > 0
    /\ ~BelowArea(mines_count, width, height)

\* C12: every board new returns, whatever the draws were, has exactly
\* mines_count mines, all of them inside the grid, fewer mines than cells,
\* no open position, no flag, and game_over false.
C12_ConstructedBoard ==
    pc = "ready" =>
        /\ Cardinality(mines) = mines_count
        /\ \A m \in mines :
              0 <= m[1] /\ m[1] < width /\ 0 <= m[2] /\ m[2] < height
        /\ BelowArea(Cardinality(mines), width, height)
        /\ open_positions = {}
        /\ flagged_positions = {}
        /\ ~game_over

\* a board with several mines has been returned, one of them in the last
\* column and one in the last row
C12_Witness ==
    /\ pc = "ready"
    /\ Cardinality(mines) > 1
    /\ \E m \in mines : m[1] = width - 1
    /\ \E m \in mines : m[2] = height - 1
    /\ Cardinality(mines) = width * height - 1

\* the positions mines_around is asked about: the cells new can draw and
\* the cells next to them (on a small grid, every cell)
Probes ==
    LET drawn == gen_range(width) \X gen_range(height)
    IN  drawn \cup UNION {Adjacent(c) : c \in drawn}

AtEnd(v, n) == v = 0 \/ v = n - 1

Corner(p) == AtEnd(p[1], width) /\ AtEnd(p[2], height)

Interior(p) == ~AtEnd(p[1], width) /\ ~AtEnd(p[2], height)

\* the neighbour set of p has 3, 5 or 8 members, by where p lies
NeighbourCountRule(p) ==
    Cardinality(neighbours(p)) =
        IF Corner(p) THEN 3 ELSE IF Interior(p) THEN 8 ELSE 5

\* mines_around(p) is the number of mines at Chebyshev distance 1 of p
\* inside the grid, between 0 and 8
CountsAdjacentMines(p) ==
    /\ neighbours(p) = Adjacent(p)
    /\ mines_around(p) = MineCount(p)
    /\ mines_around(p) \in 0 .. 8

\* C13 as the spec states it: mines_around(p) counts the mines at
\* Chebyshev distance 1 of p inside the grid, and the neighbour set has 3
\* members for a corner, 5 for another edge cell and 8 for an interior
\* cell, on every board.
C13_NeighbourCounts ==
    pc = "ready" =>
        \A p \in Probes : CountsAdjacentMines(p) /\ NeighbourCountRule(p)

\* C13 as amended: mines_around(p) counts the mines at Chebyshev distance
\* 1 of p inside the grid and lies in 0..8 on every board; the neighbour
\* set has 3 members for a corner, 5 for another edge cell and 8 for an
\* interior cell on every board at least 2 cells wide and 2 cells high.
C13_NeighbourCountsOnWideBoards ==
    pc = "ready" =>
        \A p \in Probes :
            /\ CountsAdjacentMines(p)
            /\ (width >= 2 /\ height >= 2) => NeighbourCountRule(p)

\* a board with an interior cell that has mines on several sides, one of
\* them diagonal
C13_Witness ==
    /\ pc = "ready"
    /\ \E p \in Probes :
          /\ Interior(p)
          /\ mines_around(p) > 1
          /\ \E m \in mines : Abs(m[1] - p[1]) = 1 /\ Abs(m[2] - p[2]) = 1

\* C22: new accepts every input with width > 0, height > 0 and
\* 0 < mines_count < width * height for the mathematical product, sides
\* whose product is above u16::MAX included, and rejects every other
\* input: once the assertion has been evaluated, new has panicked exactly
\* when the parameters are invalid.
C22_AcceptsExactlyValidParameters ==
    pc # "new" => (pc = "panicked" <=> InvalidParameters)

\* ------------------------------------------------------------------------
\* Properties of the rendering
\* ------------------------------------------------------------------------
\* the pieces of a text between the occurrences of a separator char
RECURSIVE SplitFrom(_, _, _, _)
SplitFrom(text, sep, i, piece) ==
    IF i > Len(text) THEN <<piece>>
    ELSE IF text[i] = sep
         THEN <<piece>> \o SplitFrom(text, sep, i + 1, <<>>)
         ELSE SplitFrom(text, sep, i + 1, Append(piece, text[i]))

Split(text, sep) == SplitFrom(text, sep, 1, <<>>)

\* str::lines of the tests: the pieces between newlines, without the
\* empty piece after a final newline
Lines(text) ==
    LET pieces == Split(text, "\n")
    IN  IF pieces[Len(pieces)] = <<>>
        THEN SubSeq(pieces, 1, Len(pieces) - 1)
        ELSE pieces

\* a line of exactly n tokens of one or two glyphs or digits, each
\* followed by a single space
IsTokenLine(line, n) ==
    LET pieces == Split(line, " ")
    IN  /\ Len(pieces) = n + 1
        /\ pieces[n + 1] = <<>>
        /\ \A i \in 1 .. n : Len(pieces[i]) \in {1, 2}

\* C14: render() yields exactly height lines, and each line consists of
\* exactly width tokens, each followed by a single space.
C14_HeightLinesOfWidthTokens ==
    LET lines == Lines(fmt(Self))
    IN  /\ Len(lines) = height
        /\ \A y \in 1 .. Len(lines) : IsTokenLine(lines[y], width)

\* a board of several rows and columns with a flag, an open cell and a
\* closed cell on it
C14_Witness ==
    /\ width > 1 /\ height > 1 /\ ~game_over
    /\ \E p \in Grid : p \in flagged_positions /\ p \notin open_positions
    /\ \E p \in Grid : p \in open_positions
    /\ \E p \in Grid : p \notin open_positions /\ p \notin flagged_positions

\* C15: the text of render() has exactly height - 1 newline chars and
\* does not end with one.
C15_NoNewlineAfterLastLine ==
    LET text == fmt(Self)
    IN  /\ Cardinality({i \in 1 .. Len(text) : text[i] = "\n"}) = height - 1
        /\ text[Len(text)] # "\n"

\* the token the priority rule of the spec gives a cell
ExpectedToken(p) ==
    IF ~game_over
    THEN IF p \in open_positions THEN to_decimal(MineCount(p))
         ELSE IF p \in flagged_positions THEN FLAG ELSE CELL
    ELSE IF p \in mines
         THEN IF p \in open_positions THEN EXPLOSION ELSE MINE
         ELSE to_decimal(MineCount(p))

\* C16: the token render() shows for the cell in column x of row y is:
\* while the game is not over, the count of an open cell, the flag glyph
\* of a flagged cell that is not open, the closed-cell glyph otherwise;
\* once the game is over, the explosion glyph of an open mine, the mine
\* glyph of any other mine, and the count of every cell that is no mine.
C16_TokenPriority ==
    LET lines == Lines(fmt(Self))
    IN  \A y \in 0 .. height - 1 :
            LET tokens == Split(lines[y + 1], " ")
            IN  \A x \in 0 .. width - 1 :
                    tokens[x + 1] = ExpectedToken(<<x, y>>)

\* the game is over on a board of several rows and columns with a closed
\* mine next to the open one, and a flagged cell that is no mine
C16_Witness ==
    /\ game_over /\ width > 1 /\ height > 1
    /\ \E p \in mines : p \in open_positions
    /\ \E p \in mines : p \notin open_positions
    /\ \E p \in flagged_positions \cap Grid : p \notin mines

\* ------------------------------------------------------------------------
\* Properties of whole games
\* ------------------------------------------------------------------------
\* C17: on a fresh board without flags, once open has been called on
\* every cell that holds no mine, in any order, the game is not over and
\* open_positions is exactly the set of the cells that hold no mine, of
\* size width * height - mines_count.
C17_SweepOpensAllSafeCells ==
    swept = Grid \ mines =>
        /\ ~game_over
        /\ open_positions = Grid \ mines
        /\ Cardinality(open_positions) = width * height - mines_count

\* the sweep is over on a board with a cell without mines around it, so
\* one of its calls revealed cells by flood fill
C17_Witness ==
    /\ swept = Grid \ mines
    /\ Cardinality(swept) >= 3
    /\ ZeroCells # {}
    /\ open_positions = Grid \ mines

\* C18: game_over is true exactly when a mine is among the open
\* positions; at most one mine is ever among them; and game_over never
\* goes from true back to false.
C18_GameOverIffMineOpen ==
    /\ [](game_over <=> (mines \cap open_positions # {}))
    /\ [](Cardinality(mines \cap open_positions) <= 1)
    /\ [][game_over => game_over']_vars

\* a mine is open next to cells a flood fill has opened, and a second
\* mine is still closed
C18_Witness ==
    /\ game_over
    /\ Cardinality(mines \cap open_positions) = 1
    /\ mines \ open_positions # {}
    /\ \E c \in ZeroCells \cap open_positions :
           Adjacent(c) \subseteq open_positions

\* C19: no call of open or toggle_flag removes an open position: the
\* open positions after a call contain the open positions before it.
C19_OpenPositionsGrow ==
    [][open_positions \subseteq open_positions']_vars

\* cells are open, one of them flagged after it was opened, and the game
\* is over
C19_Witness ==
    /\ Cardinality(open_positions) >= 3
    /\ open_positions \cap flagged_positions # {}
    /\ game_over

\* C20: every call of open terminates; during a call no position is
\* opened twice, and the number of positions the call opens is at most
\* width * height.
C20_OpenTerminates ==
    /\ [](\A p \in BagToSet(expansions) : CopiesIn(p, expansions) = 1)
    /\ [](BagCardinality(expansions) <= width * height)
    /\ (stack # <<>>) ~> (stack = <<>>)

\* a call has returned after a flood fill three activations deep that
\* opened every cell without a mine
C20_Witness ==
    /\ stack = <<>>
    /\ BagCardinality(expansions) = width * height - mines_count
    /\ BagCardinality(expansions) >= 3
    /\ ~game_over

\* ------------------------------------------------------------------------
\* Properties of single calls
\* ------------------------------------------------------------------------
\* C21: the state after open(pos) does not depend on the order in which
\* the neighbours are visited: from one state and one pos, every visiting
\* order ends with the same open_positions, flagged_positions and
\* game_over.
C21_OrderIndependent ==
    \A pos \in Inputs :
        /\ Cardinality(open_any_order(Self, pos)) = 1
        /\ \A ord \in Orders : open(Self, pos, ord) \in open_any_order(Self, pos)

\* a closed cell without mines around it has three neighbours or more,
\* one of them without mines around it and closed, one flagged
C21_Witness ==
    /\ ~game_over
    /\ \E c \in ZeroCells \ (open_positions \cup flagged_positions) :
           /\ Cardinality(Adjacent(c)) >= 3
           /\ Adjacent(c) \cap flagged_positions # {}
           /\ \E d \in Adjacent(c) \cap ZeroCells : d \notin open_positions

\* C23: neither open nor toggle_flag changes mines, width or height; open
\* never changes flagged_positions; toggle_flag never changes
\* open_positions or game_over.
C23_FrameConditions ==
    /\ [](\A pos \in Inputs :
            /\ \A ord \in Orders :
                  open(Self, pos, ord).flagged_positions = flagged_positions
            /\ toggle_flag(Self, pos).open_positions = open_positions
            /\ toggle_flag(Self, pos).game_over = game_over)
    /\ [][mines' = mines /\ width' = width /\ height' = height]_vars

\* flags and open cells are on the board, a call of open is about to open
\* a mine and another one two cells or more, and toggle_flag can still
\* set a flag
C23_Witness ==
    /\ flagged_positions # {} /\ open_positions # {} /\ ~game_over
    /\ \E pos \in mines : can_be_opened(Self, pos)
    /\ \E pos \in Grid, ord \in Orders :
           Cardinality(open(Self, pos, ord).open_positions)
               >= Cardinality(open_positions) + 2
    /\ \E pos \in Grid : toggle_flag(Self, pos) # Self

\* C24: in play with in-grid positions in which no flag is removed, every
\* in-grid neighbour of an open cell that holds no mine and has no mine
\* around it is open or flagged.
C24_ZeroCellsHaveNoClosedNeighbour ==
    \A c \in (open_positions \cap Grid) \ mines :
        MineCount(c) = 0 => Adjacent(c) \subseteq open_positions \cup flagged_positions

\* an open cell without mines around it has a flagged neighbour that
\* stayed closed and a neighbour the flood fill opened
C24_Witness ==
    \E c \in ZeroCells \cap open_positions :
        /\ \E n \in Adjacent(c) : n \in flagged_positions \ open_positions
        /\ \E n \in Adjacent(c) : n \in open_positions \ flagged_positions
        /\ Cardinality(Adjacent(c)) >= 3

====
